---- MODULE Spec2Model ----
(***************************************************************************)
(* Model of the Cloudflare remote MCP server (src/src/index.ts).           *)
(*                                                                         *)
(* The repository holds two variants of one worker: the HTTP-streamable    *)
(* variant (index.ts lines 1-417) and the WebSocket variant (index.ts      *)
(* lines 418-862).  Both register the same tool, resource and prompt       *)
(* handlers on an MCP Server object and differ in the transport.           *)
(*                                                                         *)
(* JavaScript values are encoded with uniform shapes:                      *)
(*   - a JSON-RPC id is a tagged string: "undefined" (member absent),      *)
(*     "null", "num:0", "num:7", "str:" (the empty string), "str:a";       *)
(*   - an argument value is a record [t, n, s] (typeof, number, string);   *)
(*   - params.arguments is a function from field names to such values.     *)
(***************************************************************************)
EXTENDS Integers, Sequences, FiniteSets, TLC

\* ------------------------------------------------------------------ bounds

\* Connection handles the socket variant can create.
MaxConns == 2
\* Outbound frames recorded per connection (cap on the history log).
MaxSent == 2
\* Largest magnitude of the numbers passed to random_number.
MaxNum == 10
\* Math.random() is drawn from {0/UDen, ..., (UDen-1)/UDen}, a grid of [0,1).
UDen == 4

\* ------------------------------------------------------------ JS values

Num(n) == [t |-> "number", n |-> n, s |-> ""]
Str(s) == [t |-> "string", n |-> 0, s |-> s]

NoArgs == [f \in {} |-> Num(0)]

\* JSON-RPC ids a client can put in an envelope.
RequestIds == {"num:0", "num:7", "str:", "str:a"}
Ids == {"undefined", "null"} \cup RequestIds

\* JavaScript truthiness of an id value (used by `parsedMessage.id || null`).
JsFalsy(id) == id \in {"undefined", "null", "num:0", "str:"}

\* The operand selected by `a || b`.
JsOr(a, b) == IF JsFalsy(a) THEN b ELSE a

\* String containment, as String.prototype.includes.
Contains(s, p) ==
  \E i \in 1..(Len(s) - Len(p) + 1) : SubSeq(s, i, i + Len(p) - 1) = p

\* --------------------------------------------------------------- zod

\* z.object(shape).parse(args): args must be an object, every non-optional
\* field of the shape present with the declared type, every optional field
\* absent or of the declared type.  shape: field -> [type, optional].
ZodIssues(shape, hasArgs, args) ==
  IF ~hasArgs THEN {"(root)"}
  ELSE {f \in DOMAIN shape :
          IF f \in DOMAIN args THEN args[f].t # shape[f].type
          ELSE ~shape[f].optional}

ZodOk(shape, hasArgs, args) == ZodIssues(shape, hasArgs, args) = {}

Req(type) == [type |-> type, optional |-> FALSE]
Opt(type) == [type |-> type, optional |-> TRUE]

\* ------------------------------------------------ handler results / faults

NoResult == [kind |-> "none", name |-> "", s1 |-> "", s2 |-> "",
             min |-> 0, max |-> 0, value |-> 0, names |-> {}]

Result(kind, name) == [NoResult EXCEPT !.kind = kind, !.name = name]

\* What a handler does: returns a result or throws an Error with a message.
Return(r) == [thrown |-> FALSE, result |-> r, message |-> ""]
Throw(m) == [thrown |-> TRUE, result |-> NoResult, message |-> m]

\* ------------------------------------------------------- request envelopes

\* A decoded JSON-RPC envelope.  name/uri are "undefined" when the member is
\* absent; hasParams/hasArgs say whether params / params.arguments exist.
Envelope(id, method, hasParams, name, uri, hasArgs, args) ==
  [id |-> id, method |-> method, hasParams |-> hasParams, name |-> name,
   uri |-> uri, hasArgs |-> hasArgs, args |-> args]

DestructureError == "Cannot destructure property of 'request.params' as it is undefined."

ZodError(shape, request) ==
  "ZodError: " \o (CHOOSE f \in ZodIssues(shape, request.hasArgs, request.args) : TRUE)

\* ------------------------------------------------------------------ tools

EchoShape == [text |-> Req("string")]
RandomShape == [min |-> Req("number"), max |-> Req("number")]

\* A catalog that also advertises a tool the switch does not handle.
ListToolsMutant ==
  << [name |-> "echo", properties |-> [text |-> "string"], required |-> {"text"}],
     [name |-> "get_time", properties |-> [f \in {} |-> "string"], required |-> {}],
     [name |-> "random_number", properties |-> [min |-> "number", max |-> "number"],
      required |-> {"min", "max"}],
     [name |-> "roll_dice", properties |-> [count |-> "number"], required |-> {"count"}] >>

\* The catalog returned by tools/list: name, declared property types and
\* the required fields of each descriptor.
ListTools ==
  << [name |-> "echo", properties |-> [text |-> "string"], required |-> {"text"}],
     [name |-> "get_time", properties |-> [f \in {} |-> "string"], required |-> {}],
     [name |-> "random_number", properties |-> [min |-> "number", max |-> "number"],
      required |-> {"min", "max"}] >>

ToolNames == {ListTools[i].name : i \in DOMAIN ListTools}

\* Math.floor(u * span) + min for u = k / UDen.
RandomNumMutant(min, max, k) == ((k * (max - min + 1) + UDen - 1) \div UDen) + min
RandomNum(min, max, k) == ((k * (max - min + 1)) \div UDen) + min

\* The tools/call handler: switch (name) over the three tools.
CallTool(request, k) ==
  IF ~request.hasParams THEN Throw(DestructureError)
  ELSE CASE request.name = "echo" ->
              IF ZodOk(EchoShape, request.hasArgs, request.args)
              THEN Return([Result("tool", "echo") EXCEPT !.s1 = request.args["text"].s])
              ELSE Throw(ZodError(EchoShape, request))
         [] request.name = "get_time" ->
              Return(Result("tool", "get_time"))
         [] request.name = "random_number" ->
              IF ZodOk(RandomShape, request.hasArgs, request.args)
              THEN LET min == request.args["min"].n
                       max == request.args["max"].n
                   IN Return([Result("tool", "random_number") EXCEPT
                                !.min = min, !.max = max,
                                !.value = RandomNum(min, max, k)])
              ELSE Throw(ZodError(RandomShape, request))
         [] OTHER -> Throw("Unknown tool: " \o request.name)

\* -------------------------------------------------------------- resources

ListResources == <<"cloudflare://worker-info", "cloudflare://sample-data">>

ResourceUris == {ListResources[i] : i \in DOMAIN ListResources}

\* The resources/read handler: switch (uri) over the two resources.
ReadResource(request) ==
  IF ~request.hasParams THEN Throw(DestructureError)
  ELSE CASE request.uri = "cloudflare://worker-info" ->
              Return([Result("resource", request.uri) EXCEPT !.s1 = "application/json"])
         [] request.uri = "cloudflare://sample-data" ->
              Return([Result("resource", request.uri) EXCEPT
                        !.s1 = "application/json", !.value = 3])
         [] OTHER -> Throw("Unknown resource: " \o request.uri)

\* ---------------------------------------------------------------- prompts

ExplainShape == [code |-> Req("string"), language |-> Opt("string")]
DebugShape == [error |-> Req("string"), context |-> Opt("string")]

ListPrompts == <<"explain_code", "debug_help">>

PromptNames == {ListPrompts[i] : i \in DOMAIN ListPrompts}

\* The value of an optional string argument ("" when absent).
OptArg(args, f) == IF f \in DOMAIN args THEN args[f].s ELSE ""

\* The prompts/get handler: switch (name) over the two prompts.
GetPrompt(request) ==
  IF ~request.hasParams THEN Throw(DestructureError)
  ELSE CASE request.name = "explain_code" ->
              IF ZodOk(ExplainShape, request.hasArgs, request.args)
              THEN Return([Result("prompt", "explain_code") EXCEPT
                             !.s1 = request.args["code"].s,
                             !.s2 = OptArg(request.args, "language")])
              ELSE Throw(ZodError(ExplainShape, request))
         [] request.name = "debug_help" ->
              IF ZodOk(DebugShape, request.hasArgs, request.args)
              THEN Return([Result("prompt", "debug_help") EXCEPT
                             !.s1 = request.args["error"].s,
                             !.s2 = OptArg(request.args, "context")])
              ELSE Throw(ZodError(DebugShape, request))
         [] OTHER -> Throw("Unknown prompt: " \o request.name)

\* ------------------------------------------------------------- dispatcher

RequestMethods == {"tools/list", "tools/call", "resources/list",
                   "resources/read", "prompts/list", "prompts/get"}

\* A notification carries no id (absent or null).
IsNotification(request) == request.id \in {"undefined", "null"}

NoError == [code |-> 0, message |-> "", data |-> ""]

\* An outbound JSON-RPC frame: a notification, a result or an error envelope.
Frame(type, id, method, result, error) ==
  [jsonrpc |-> "2.0", type |-> type, id |-> id, method |-> method,
   result |-> result, error |-> error]

NoFrame == Frame("none", "undefined", "", NoResult, NoError)

\* The registered handler for a method, applied to the request.
Handle(request, k) ==
  CASE request.method = "tools/list" -> Return([Result("tools", "") EXCEPT !.names = ToolNames])
    [] request.method = "tools/call" -> CallTool(request, k)
    [] request.method = "resources/list" ->
         Return([Result("resources", "") EXCEPT !.names = ResourceUris])
    [] request.method = "resources/read" -> ReadResource(request)
    [] request.method = "prompts/list" ->
         Return([Result("prompts", "") EXCEPT !.names = PromptNames])
    [] request.method = "prompts/get" -> GetPrompt(request)

\* Server.handleRequest: nothing for a notification; otherwise the handler's
\* result wrapped in a result envelope echoing the id, or the handler's
\* fault propagated to the caller.
handleRequest(request, k) ==
  IF IsNotification(request)
  THEN [thrown |-> FALSE, response |-> NoFrame, message |-> ""]
  ELSE LET h == Handle(request, k)
       IN IF h.thrown
          THEN [thrown |-> TRUE, response |-> NoFrame, message |-> h.message]
          ELSE [thrown |-> FALSE,
                response |-> Frame("result", request.id, "", h.result, NoError),
                message |-> ""]

\* A check that lets a null response through.
TruthyMutant(response) == TRUE

\* `if (response)`: a null/undefined response is falsy, an envelope truthy.
Truthy(response) == response.type # "none"

\* ---------------------------------------------------------------- inputs

Conns == 1..MaxConns

\* A tools/call, resources/read or prompts/get envelope without its id.
ToolCall(name, hasArgs, args) ==
  Envelope("undefined", "tools/call", TRUE, name, "undefined", hasArgs, args)
ResourceRead(uri) ==
  Envelope("undefined", "resources/read", TRUE, "undefined", uri, FALSE, NoArgs)
PromptGet(name, args) ==
  Envelope("undefined", "prompts/get", TRUE, name, "undefined", TRUE, args)

\* Payloads sent under every id.
CorePayloads ==
  { Envelope("undefined", "tools/list", FALSE, "undefined", "undefined", FALSE, NoArgs),
    ToolCall("echo", TRUE, [text |-> Str("hi")]),
    ToolCall("nope", TRUE, NoArgs) }

\* method + params combinations the clients send (without the id).
Payloads ==
  CorePayloads
  \cup {Envelope("undefined", m, FALSE, "undefined", "undefined", FALSE, NoArgs) :
          m \in {"tools/call", "resources/list", "prompts/list"}}
  \cup { ToolCall("echo", TRUE, [text |-> Num(5)]),
         ToolCall("echo", FALSE, NoArgs),
         ToolCall("get_time", FALSE, NoArgs),
         ToolCall("get_time", TRUE, NoArgs),
         ToolCall("random_number", TRUE, [min |-> Num(1), max |-> Num(2)]),
         ToolCall("random_number", TRUE, [min |-> Num(2), max |-> Num(2)]),
         ToolCall("random_number", TRUE, [min |-> Num(1)]) }
  \cup {ResourceRead(u) : u \in ResourceUris \cup {"cloudflare://nope"}}
  \cup { PromptGet("explain_code", [code |-> Str("x=1")]),
         PromptGet("explain_code", NoArgs),
         PromptGet("debug_help", [error |-> Str("boom"), context |-> Str("ctx")]),
         PromptGet("nope", NoArgs) }

\* The envelopes the clients send: the core payloads under every id (as
\* notifications too), the others as requests with id 7.
Requests ==
  {[p EXCEPT !.id = id] : p \in CorePayloads, id \in Ids}
  \cup {[p EXCEPT !.id = "num:7"] : p \in Payloads}

NoRequest == Envelope("undefined", "", FALSE, "undefined", "undefined", FALSE, NoArgs)

\* An inbound WebSocket frame or HTTP body: binary or text; a text either
\* parses as JSON to an envelope or does not parse.
Message(type, valid, envelope) == [type |-> type, valid |-> valid, envelope |-> envelope]

NoMessage == Message("none", FALSE, NoRequest)

Messages ==
  {Message("binary", FALSE, NoRequest), Message("text", FALSE, NoRequest)}
  \cup {Message("text", TRUE, r) : r \in Requests}

\* The frames the socket clients send: a binary frame, a text that is not
\* JSON, a successful and a faulting call under every id (and as
\* notifications), and under id 7 a listing, a call with a mistyped
\* argument, a call that draws a number, and an unknown resource and prompt.
InboundFrames ==
  {Message("binary", FALSE, NoRequest), Message("text", FALSE, NoRequest)}
  \cup {Message("text", TRUE, [p EXCEPT !.id = id]) :
          p \in {ToolCall("echo", TRUE, [text |-> Str("hi")]), ToolCall("nope", TRUE, NoArgs)},
          id \in Ids}
  \cup {Message("text", TRUE, [p EXCEPT !.id = "num:7"]) :
          p \in { Envelope("undefined", "tools/list", FALSE, "undefined", "undefined", FALSE, NoArgs),
                  ToolCall("echo", TRUE, [text |-> Num(5)]),
                  ToolCall("random_number", TRUE, [min |-> Num(1), max |-> Num(2)]),
                  ResourceRead("cloudflare://nope"),
                  PromptGet("nope", NoArgs) }}

\* typeof message === "string"
IsString(message) == message.type = "text"

\* JSON.parse(message): succeeds only on a text that is valid JSON (a binary
\* frame coerced to a string is not JSON).
JSONParses(message) == message.type = "text" /\ message.valid

\* Math.random() draws, as numerators over UDen.
Draws == 0..(UDen - 1)

\* The draw matters only to random_number; the other requests use draw 0.
DrawsFor(message) ==
  IF message.envelope.method = "tools/call" /\ message.envelope.name = "random_number"
  THEN Draws ELSE {0}

\* ------------------------------------------------------------ HTTP shapes

HttpRequest(method, path, upgrade, body) ==
  [method |-> method, path |-> path, upgrade |-> upgrade, body |-> body]

NoHttpRequest == HttpRequest("", "", "", NoMessage)

Response(status, contentType, body) ==
  [status |-> status, contentType |-> contentType, body |-> body,
   allowOrigin |-> "", allowMethods |-> "", allowHeaders |-> "",
   upgrade |-> "", webSocket |-> 0, json |-> NoFrame]

NoResponse == Response(0, "", "")

\* The CORS preflight answer of both variants.
CorsResponse ==
  [Response(200, "", "null") EXCEPT
     !.allowOrigin = "*", !.allowMethods = "GET, POST, OPTIONS",
     !.allowHeaders = "Content-Type, Authorization"]

\* GET / : the server information document.
InfoResponse == [Response(200, "application/json", "serverInfo") EXCEPT !.allowOrigin = "*"]

NotFoundResponse == Response(404, "", "Not Found")

\* An error object with the description and the fixed text swapped.
InternalErrorMutant(data) == [code |-> -32603, message |-> data, data |-> "Internal error"]

\* The error object both transports build from a caught fault.
InternalError(data) == [code |-> -32603, message |-> "Internal error", data |-> data]

\* ------------------------------------------------------------------ state

VARIABLES
  variant,    \* which worker is deployed: "http" or "socket"
  sessions,   \* MCPServerObject.sessions, the open-connection set
  wsState,    \* each connection handle: "Pending", "Open" or "Closed"
  closeCode,  \* the code and reason of the server's ws.close() on a connection
  sent,       \* history: the frames sent on each connection, by kind
  pending,    \* the webSocketMessage invocation suspended at the await
  http,       \* the POST /mcp being handled: position and stream operations
  last        \* history: the last event handled and what it did

vars == <<variant, sessions, wsState, closeCode, sent, pending, http, last>>

\* ws.close(1011, "Internal error"), and no close call.
InternalClose == [code |-> 1011, reason |-> "Internal error"]
NoClose == [code |-> 0, reason |-> ""]

\* What one event did: the HTTP response returned, the frames sent on the
\* connection, whether ws.close() was called, whether the dispatcher ran;
\* `attempts` counts the sends on a connection that was no longer open,
\* `deleted` is the value of sessions.delete(ws) (the entry was there).
Event(op, ws, request, message, response, frames, closed, dispatched, fault) ==
  [op |-> op, ws |-> ws, request |-> request, message |-> message,
   response |-> response, frames |-> frames, closed |-> closed,
   dispatched |-> dispatched, fault |-> fault, attempts |-> 0, deleted |-> FALSE]

NoEvent == Event("none", 0, NoHttpRequest, NoMessage, NoResponse, <<>>, FALSE, FALSE, "")

\* A suspended webSocketMessage: its connection, its message and what the
\* awaited dispatcher call resolves to.  The model follows one suspended
\* invocation at a time.
Pending(ws, message, outcome) == [ws |-> ws, message |-> message, outcome |-> outcome]

NoOutcome == [thrown |-> FALSE, response |-> NoFrame, message |-> ""]

NoPending == Pending(0, NoMessage, NoOutcome)

\* The POST /mcp in progress: where fetch() is suspended ("write": at the
\* awaited writer.write, "close": at the awaited writer.close), the writer
\* calls made so far on the response stream and the chunks written to it.
\* "done" keeps the stream of the response last returned.  `reader` says
\* whether the readable side has a consumer: it gets one when fetch()
\* returns the Response that carries it.
Http(pc, request, ops, chunks, reader) ==
  [pc |-> pc, request |-> request, ops |-> ops, chunks |-> chunks, reader |-> reader]

IdleHttp == Http("idle", NoHttpRequest, <<>>, <<>>, FALSE)

Init ==
  /\ variant \in {"http", "socket"}
  /\ sessions = {}
  /\ wsState = [c \in Conns |-> "Pending"]
  /\ closeCode = [c \in Conns |-> NoClose]
  /\ sent = [c \in Conns |-> <<>>]
  /\ pending = NoPending
  /\ http = IdleHttp
  /\ last = NoEvent

\* --------------------------------------------------------- socket variant

\* A routing that tests the Upgrade header before the method.
RouteSocketMutant(request) ==
  IF request.upgrade = "websocket" THEN "upgrade"
  ELSE IF request.method = "OPTIONS" THEN "cors"
  ELSE IF request.path = "/" THEN "info"
  ELSE IF request.path = "/ws" THEN "upgradeRequired"
  ELSE "notFound"

\* The branch fetch() takes for a request (socket variant).
RouteSocket(request) ==
  IF request.method = "OPTIONS" THEN "cors"
  ELSE IF request.upgrade = "websocket" THEN "upgrade"
  ELSE IF request.path = "/" THEN "info"
  ELSE IF request.path = "/ws" THEN "upgradeRequired"
  ELSE "notFound"

\* The notification acceptWebSocket pushes.
InitMessage == Frame("notification", "undefined", "notifications/initialized", NoResult, NoError)

\* How the history logs a frame: a notification by its method, a result or
\* error envelope as "response".
FrameKind(frame) == IF frame.type = "notification" THEN frame.method ELSE "response"

FrameKinds(frames) == [i \in DOMAIN frames |-> FrameKind(frames[i])]

\* An accept that pushes nothing.
AcceptFramesMutant(ws) == <<>>

\* The frames acceptWebSocket sends on the new connection.
AcceptFrames(ws) == <<InitMessage>>

UpgradeResponse(ws) == [Response(101, "", "null") EXCEPT !.webSocket = ws, !.allowOrigin = "*"]

UpgradeRequiredResponse ==
  [Response(426, "", "WebSocket endpoint - upgrade connection to use MCP protocol")
     EXCEPT !.upgrade = "websocket", !.allowOrigin = "*"]

\* new WebSocketPair(): the next unused connection handle.
NewWebSocket == CHOOSE c \in Conns : wsState[c] = "Pending" /\ \A d \in Conns : wsState[d] = "Pending" => c <= d

\* MCPServerObject.acceptWebSocket(ws): sessions.add, ws.accept, ws.send(init).
acceptWebSocket(ws) ==
  /\ sessions' = sessions \cup {ws}
  /\ wsState' = [wsState EXCEPT ![ws] = "Open"]
  /\ sent' = [sent EXCEPT ![ws] = sent[ws] \o FrameKinds(AcceptFrames(ws))]

\* fetch() of the socket variant.  Only an upgrade reaches the durable
\* object; the other requests touch nothing a suspended webSocketMessage
\* reads or writes, so the model orders them before or after it.
fetchSocket(request) ==
  /\ variant = "socket"
  /\ (pending # NoPending => RouteSocket(request) = "upgrade")
  /\ LET route == RouteSocket(request)
     IN IF route = "upgrade"
        THEN /\ \E c \in Conns : wsState[c] = "Pending"
             /\ acceptWebSocket(NewWebSocket)
             /\ last' = Event("fetch", NewWebSocket, request, NoMessage,
                              UpgradeResponse(NewWebSocket), AcceptFrames(NewWebSocket),
                              FALSE, FALSE, "")
        ELSE /\ UNCHANGED <<sessions, wsState, sent>>
             /\ last' = Event("fetch", 0, request, NoMessage,
                              CASE route = "cors" -> CorsResponse
                                [] route = "info" -> InfoResponse
                                [] route = "upgradeRequired" -> UpgradeRequiredResponse
                                [] OTHER -> NotFoundResponse,
                              <<>>, FALSE, FALSE, "")
  /\ UNCHANGED <<variant, closeCode, pending, http>>

\* The error envelope of webSocketMessage's catch block.
WsErrorResponse(parsedMessage, message) ==
  Frame("error", JsOr(parsedMessage.id, "null"), "", NoResult, InternalError(message))

\* A catch block that swallows the failure of its own JSON.parse.
WsReplyMutant(open, sendThrows, message, outcome) ==
  LET caught == ~JSONParses(message) \/ outcome.thrown
  IN [frames |-> IF JSONParses(message) /\ open
                 THEN IF outcome.thrown
                      THEN <<WsErrorResponse(message.envelope, outcome.message)>>
                      ELSE IF Truthy(outcome.response) THEN <<outcome.response>> ELSE <<>>
                 ELSE <<>>,
      attempts |-> 0,
      close |-> FALSE,
      fault |-> IF ~caught THEN ""
                ELSE IF outcome.thrown THEN outcome.message ELSE "SyntaxError: Unexpected token"]

\* What webSocketMessage does once the dispatcher's outcome is known: the
\* frames it sends, the send attempts on a connection that is no longer
\* open, whether it calls ws.close(1011), and the fault it caught.
\* `open`: the connection is open at that point; `sendThrows`: ws.send on a
\* connection that is not open throws (otherwise the frame is dropped).
WsReply(open, sendThrows, message, outcome) ==
  LET sendFails == ~open /\ sendThrows
      bodyFault ==
        IF ~IsString(message) THEN "Expected string message"
        ELSE IF ~JSONParses(message) THEN "SyntaxError: Unexpected token"
        ELSE IF outcome.thrown THEN outcome.message
        ELSE IF Truthy(outcome.response) /\ sendFails THEN "TypeError: send after close"
        ELSE ""
      bodySends == IsString(message) /\ JSONParses(message) /\ ~outcome.thrown
                   /\ Truthy(outcome.response)
      bodyFrames == IF bodySends /\ open THEN <<outcome.response>> ELSE <<>>
      caught == bodyFault # ""
      catchSends == caught /\ JSONParses(message)
      catchFrames == IF catchSends /\ open
                     THEN <<WsErrorResponse(message.envelope, bodyFault)>> ELSE <<>>
      attempts == (IF bodySends /\ ~open THEN 1 ELSE 0)
                  + (IF catchSends /\ ~open THEN 1 ELSE 0)
  IN [frames |-> bodyFrames \o catchFrames,
      attempts |-> attempts,
      close |-> caught /\ (~JSONParses(message) \/ sendFails),
      fault |-> bodyFault]

\* A handler that sends its frames on every connection of the set.
WsFinishMutant(ws, message, outcome, dispatched, reply) ==
  /\ sent' = [c \in Conns |->
                IF c = ws \/ c \in sessions
                THEN sent[c] \o FrameKinds(reply.frames) ELSE sent[c]]
  /\ wsState' = [wsState EXCEPT ![ws] = IF reply.close THEN "Closed" ELSE @]
  /\ closeCode' = [closeCode EXCEPT ![ws] = IF reply.close /\ wsState[ws] = "Open" THEN InternalClose ELSE @]
  /\ last' = [Event("webSocketMessage", ws, NoHttpRequest, message, NoResponse,
                    reply.frames, reply.close, dispatched, reply.fault)
                EXCEPT !.attempts = reply.attempts]

\* The state change of a finished webSocketMessage invocation.
WsFinish(ws, message, outcome, dispatched, reply) ==
  /\ sent' = [sent EXCEPT ![ws] = sent[ws] \o FrameKinds(reply.frames)]
  /\ wsState' = [wsState EXCEPT ![ws] = IF reply.close THEN "Closed" ELSE @]
  /\ closeCode' = [closeCode EXCEPT ![ws] = IF reply.close /\ wsState[ws] = "Open" THEN InternalClose ELSE @]
  /\ last' = [Event("webSocketMessage", ws, NoHttpRequest, message, NoResponse,
                    reply.frames, reply.close, dispatched, reply.fault)
                EXCEPT !.attempts = reply.attempts]

\* webSocketMessage(ws, message) up to its suspension point: a frame that is
\* not a string or not JSON faults before the await and is handled by the
\* catch block at once; otherwise the dispatcher is called and awaited.
webSocketMessage(ws, message) ==
  /\ variant = "socket"
  /\ wsState[ws] = "Open"
  /\ Len(sent[ws]) < MaxSent
  /\ pending = NoPending
  /\ IF IsString(message) /\ JSONParses(message)
     THEN /\ \E k \in DrawsFor(message) :
               pending' = Pending(ws, message, handleRequest(message.envelope, k))
          /\ last' = Event("webSocketMessageAwait", ws, NoHttpRequest, message,
                           NoResponse, <<>>, FALSE, TRUE, "")
          /\ UNCHANGED <<sessions, wsState, closeCode, sent>>
     ELSE /\ WsFinish(ws, message, NoOutcome, FALSE,
                      WsReply(TRUE, FALSE, message, NoOutcome))
          /\ UNCHANGED <<sessions, pending>>
  /\ UNCHANGED <<variant, http>>

\* webSocketMessage after the await: send the response, or run the catch
\* block on a fault.  The connection may have been closed meanwhile.
webSocketMessageResume ==
  /\ variant = "socket"
  /\ pending # NoPending
  /\ \E sendThrows \in BOOLEAN :
       /\ (wsState[pending.ws] = "Open" => sendThrows)
       /\ WsFinish(pending.ws, pending.message, pending.outcome, TRUE,
                   WsReply(wsState[pending.ws] = "Open", sendThrows,
                           pending.message, pending.outcome))
  /\ pending' = NoPending
  /\ UNCHANGED <<variant, sessions, http>>

\* webSocketClose(ws, code, reason): the connection closed.  The runtime may
\* deliver the event for a connection already removed.
webSocketClose(ws) ==
  /\ variant = "socket"
  /\ wsState[ws] # "Pending"
  /\ sessions' = sessions \ {ws}
  /\ wsState' = [wsState EXCEPT ![ws] = "Closed"]
  /\ last' = [Event("webSocketClose", ws, NoHttpRequest, NoMessage, NoResponse,
                    <<>>, FALSE, FALSE, "")
                EXCEPT !.deleted = ws \in sessions]
  /\ UNCHANGED <<variant, closeCode, sent, pending, http>>

\* An error handler that toggles the entry instead of deleting it.
webSocketErrorMutant(ws) ==
  /\ variant = "socket"
  /\ wsState[ws] # "Pending"
  /\ sessions' = IF ws \in sessions THEN sessions \ {ws} ELSE sessions \cup {ws}
  /\ wsState' = [wsState EXCEPT ![ws] = "Closed"]
  /\ last' = [Event("webSocketError", ws, NoHttpRequest, NoMessage, NoResponse,
                    <<>>, FALSE, FALSE, "")
                EXCEPT !.deleted = ws \in sessions]
  /\ UNCHANGED <<variant, closeCode, sent, pending, http>>

\* webSocketError(ws, error): the connection failed.
webSocketError(ws) ==
  /\ variant = "socket"
  /\ wsState[ws] # "Pending"
  /\ sessions' = sessions \ {ws}
  /\ wsState' = [wsState EXCEPT ![ws] = "Closed"]
  /\ last' = [Event("webSocketError", ws, NoHttpRequest, NoMessage, NoResponse,
                    <<>>, FALSE, FALSE, "")
                EXCEPT !.deleted = ws \in sessions]
  /\ UNCHANGED <<variant, closeCode, sent, pending, http>>

\* ----------------------------------------------------------- HTTP variant

\* The branch fetch() takes for a request (HTTP variant).
RouteHttp(request) ==
  IF request.method = "OPTIONS" THEN "cors"
  ELSE IF request.method = "POST" /\ request.path = "/mcp" THEN "mcp"
  ELSE IF request.path = "/" THEN "info"
  ELSE "notFound"

\* The 500 answer of the catch block: a plain JSON error body with id null.
ErrorResponse(message) ==
  [Response(500, "application/json", "json") EXCEPT
     !.json = Frame("error", "null", "", NoResult, InternalError(message)),
     !.allowOrigin = "*"]

\* The 200 answer carrying the readable side of the stream.
SseResponse ==
  [Response(200, "text/event-stream", "readable") EXCEPT
     !.allowOrigin = "*", !.allowHeaders = "Content-Type, Authorization"]

\* A handler that writes the frame twice.
SseChunksMutant(response) == IF Truthy(response) THEN <<response, response>> ELSE <<>>

\* The `data: ...` frames fetch() writes for a dispatcher response.
SseChunks(response) == IF Truthy(response) THEN <<response>> ELSE <<>>

\* A try block that lets the dispatcher's fault pass as a null response.
HttpFaultMutant(body, outcome) ==
  IF ~JSONParses(body) THEN "SyntaxError: Unexpected token" ELSE ""

\* The fault of the try block before the stream is created, "" if none:
\* request.json() rejects a body that is not JSON, handleMCPRequest
\* propagates the dispatcher's fault.
HttpFault(body, outcome) ==
  IF ~JSONParses(body) THEN "SyntaxError: Unexpected token"
  ELSE IF outcome.thrown THEN outcome.message
  ELSE ""

\* handleMCPRequest(jsonRpcMessage) on the durable object.
handleMCPRequest(body, k) ==
  IF JSONParses(body) THEN handleRequest(body.envelope, k) ELSE NoOutcome

\* fetch() of the HTTP variant, up to its first suspension on the stream.
fetchHttp(request) ==
  /\ variant = "http"
  /\ http.pc \in {"idle", "done"}
  /\ LET route == RouteHttp(request)
     IN IF route = "mcp"
        THEN \E k \in DrawsFor(request.body) :
               LET outcome == handleMCPRequest(request.body, k)
                   fault == HttpFault(request.body, outcome)
                   chunks == SseChunks(outcome.response)
               IN IF fault # ""
                  THEN /\ http' = IdleHttp
                       /\ last' = Event("fetch", 0, request, request.body,
                                        ErrorResponse(fault), <<>>, FALSE,
                                        JSONParses(request.body), fault)
                  ELSE /\ http' = IF chunks # <<>>
                                  THEN Http("write", request, <<"write">>, chunks, FALSE)
                                  ELSE Http("close", request, <<"close">>, <<>>, FALSE)
                       /\ last' = Event("fetchAwait", 0, request, request.body,
                                        NoResponse, <<>>, FALSE, TRUE, "")
        ELSE /\ http' = IdleHttp
             /\ last' = Event("fetch", 0, request, request.body,
                              CASE route = "cors" -> CorsResponse
                                [] route = "info" -> InfoResponse
                                [] OTHER -> NotFoundResponse,
                              <<>>, FALSE, FALSE, "")
  /\ UNCHANGED <<variant, sessions, wsState, closeCode, sent, pending>>

\* fetch() resumes from an await on the stream writer.  A TransformStream
\* has no buffer on its readable side: the awaited writer.write() resolves
\* only once a consumer of the readable side takes the chunk, after which
\* fetch() calls writer.close(); the awaited writer.close() of a stream with
\* nothing queued resolves at once, after which fetch() returns the Response.
httpResume ==
  /\ variant = "http"
  /\ http.pc \in {"write", "close"}
  /\ IF http.pc = "write"
     THEN /\ http.reader
          /\ http' = [http EXCEPT !.pc = "close", !.ops = Append(@, "close")]
          /\ last' = Event("fetchAwait", 0, http.request, http.request.body,
                           NoResponse, <<>>, FALSE, TRUE, "")
     ELSE /\ http' = [http EXCEPT !.pc = "done", !.reader = TRUE]
          /\ last' = Event("fetch", 0, http.request, http.request.body, SseResponse,
                           http.chunks, FALSE, TRUE, "")
  /\ UNCHANGED <<variant, sessions, wsState, closeCode, sent, pending>>

\* ------------------------------------------------------- the specification

HttpMethods == {"GET", "POST", "OPTIONS"}
HttpPaths == {"/", "/ws", "/mcp", "/nope"}
UpgradeHeaders == {"websocket", ""}

\* Requests without a body of interest.
PlainRequests ==
  {HttpRequest(m, p, u, NoMessage) : m \in HttpMethods, p \in HttpPaths, u \in UpgradeHeaders}

\* The requests sent to the socket variant, which looks at the method only
\* to tell OPTIONS and knows no /mcp path.
SocketRequests == {r \in PlainRequests : r.method # "POST" /\ r.path # "/mcp"}

\* The README's "Roll Dice" calls: tools/call roll_dice {count: n}.
RollDiceRequests ==
  {[ToolCall("roll_dice", TRUE, [count |-> Num(n)]) EXCEPT !.id = "num:7"] : n \in 1..2}

\* POST /mcp requests: a body that is not JSON, or an envelope.
McpRequests ==
  {HttpRequest("POST", "/mcp", "", b) : b \in {m \in Messages : m.type = "text"}}
  \cup {HttpRequest("POST", "/mcp", "", Message("text", TRUE, r)) : r \in RollDiceRequests}

Next ==
  \/ \E request \in SocketRequests : fetchSocket(request)
  \/ \E ws \in Conns, message \in InboundFrames : webSocketMessage(ws, message)
  \/ webSocketMessageResume
  \/ \E ws \in Conns : webSocketClose(ws)
  \/ \E ws \in Conns : webSocketError(ws)
  \/ \E request \in PlainRequests \cup McpRequests : fetchHttp(request)
  \/ httpResume

Spec == Init /\ [][Next]_vars

\* ------------------------------------------ the tool handlers on their own

\* Argument values of a declared JSON-schema type.
ValuesOf(type) ==
  IF type = "number" THEN {Num(n) : n \in (0 - MaxNum)..MaxNum} ELSE {Str("hi")}

\* The minimal argument sets of a descriptor: exactly its required fields,
\* each with a value of its declared type.
MinimalArgs(descriptor) ==
  {a \in [descriptor.required -> ValuesOf("number") \cup ValuesOf("string")] :
     \A f \in descriptor.required : a[f].t = descriptor.properties[f]}

\* tools/call requests: every listed tool with every minimal argument set,
\* and listed and unlisted names with missing or mistyped arguments.
ToolRequests ==
  {ToolCall(ListTools[i].name, TRUE, a) :
     i \in DOMAIN ListTools, a \in UNION {MinimalArgs(ListTools[j]) : j \in DOMAIN ListTools}}
  \cup {ToolCall(n, h, a) : n \in ToolNames \cup {"nope"}, h \in BOOLEAN,
                            a \in {NoArgs, [text |-> Num(5)], [min |-> Str("hi"), max |-> Num(1)]}}

ToolInit ==
  /\ variant = "handlers"
  /\ sessions = {}
  /\ wsState = [c \in Conns |-> "Pending"]
  /\ closeCode = [c \in Conns |-> NoClose]
  /\ sent = [c \in Conns |-> <<>>]
  /\ pending = NoPending
  /\ http = IdleHttp
  /\ last = NoEvent

\* One call of the tools/call handler; `last` keeps the request, the result
\* (as the frame a result envelope would carry) and the fault.  The handlers
\* keep no state, so the calls are explored one per listing.
callTool(request, k) ==
  /\ variant = "handlers"
  /\ last.op # "CallTool"
  /\ LET h == CallTool(request, k)
     IN last' = Event("CallTool", 0, NoHttpRequest, Message("text", TRUE, request),
                      NoResponse,
                      IF h.thrown THEN <<>>
                      ELSE <<Frame("result", "undefined", "", h.result, NoError)>>,
                      FALSE, FALSE, h.message)
  /\ UNCHANGED <<variant, sessions, wsState, closeCode, sent, pending, http>>

\* One call of the tools/list handler.
listTools ==
  /\ variant = "handlers"
  /\ last' = Event("ListTools", 0, NoHttpRequest, NoMessage, NoResponse,
                   <<Frame("result", "undefined", "",
                           [Result("tools", "") EXCEPT !.names = ToolNames], NoError)>>,
                   FALSE, FALSE, "")
  /\ UNCHANGED <<variant, sessions, wsState, closeCode, sent, pending, http>>

ToolNext ==
  \/ \E request \in ToolRequests :
       \E k \in DrawsFor(Message("text", TRUE, request)) : callTool(request, k)
  \/ listTools

ToolSpec == ToolInit /\ [][ToolNext]_vars

\* ------------------------------------------------------------------ claims

\* The last event is a finished webSocketMessage on a text frame that parsed.
WsHandled == last.op = "webSocketMessage" /\ JSONParses(last.message)

\* The last event is a POST /mcp of the HTTP variant that returned.
McpReturned ==
  variant = "http" /\ last.op = "fetch" /\ RouteHttp(last.request) = "mcp"

\* C1: a notification (no id) never causes a response envelope: on the
\* socket transport webSocketMessage sends no frame (and attempts none), on
\* the HTTP transport POST /mcp writes no data: frame and returns no error
\* body.
C1_NotificationNoReply ==
  /\ (WsHandled /\ IsNotification(last.message.envelope))
       => (last.frames = <<>> /\ last.attempts = 0 /\ ~last.closed)
  /\ (http.pc # "idle" /\ JSONParses(http.request.body)
        /\ IsNotification(http.request.body.envelope))
       => (http.chunks = <<>> /\ \A i \in DOMAIN http.ops : http.ops[i] # "write")
  /\ (McpReturned /\ JSONParses(last.message) /\ IsNotification(last.message.envelope))
       => (last.frames = <<>> /\ last.response.json = NoFrame)

\* A tools/call notification naming an unknown tool was handled on a socket.
C1_Witness ==
  /\ WsHandled /\ IsNotification(last.message.envelope)
  /\ last.message.envelope.method = "tools/call"
  /\ last.message.envelope.name = "nope"
  /\ sent[last.ws] = <<"notifications/initialized">>

\* C2: on every accepted connection the first outbound frame is the
\* notifications/initialized notification, no other frame on it is one, the
\* accept sends exactly that frame, and a message is processed only on a
\* connection whose log already starts with it.
C2_InitFirst ==
  /\ \A c \in Conns :
       IF wsState[c] = "Pending" THEN sent[c] = <<>>
       ELSE /\ sent[c] # <<>>
            /\ sent[c][1] = "notifications/initialized"
            /\ \A i \in 2..Len(sent[c]) : sent[c][i] # "notifications/initialized"
  /\ (last.op = "fetch" /\ last.response.status = 101)
       => (last.frames = <<InitMessage>> /\ last.ws \in Conns)
  /\ (pending # NoPending)
       => (sent[pending.ws] # <<>> /\ sent[pending.ws][1] = "notifications/initialized")
  /\ (last.op \in {"webSocketMessage", "webSocketMessageAwait"})
       => (sent[last.ws] # <<>> /\ sent[last.ws][1] = "notifications/initialized")

\* A connection that sent the notification and then answered a request.
C2_Witness ==
  /\ WsHandled /\ last.frames # <<>> /\ last.frames[1].type = "result"
  /\ sent[last.ws] = <<"notifications/initialized", "response">>

UnknownKey(request) ==
  /\ ~IsNotification(request)
  /\ request.hasParams
  /\ \/ request.method = "tools/call" /\ request.name \notin ToolNames
     \/ request.method = "resources/read" /\ request.uri \notin ResourceUris
     \/ request.method = "prompts/get" /\ request.name \notin PromptNames

\* The fault description of an unregistered key.
UnknownText(request) ==
  CASE request.method = "tools/call" -> "Unknown tool: " \o request.name
    [] request.method = "resources/read" -> "Unknown resource: " \o request.uri
    [] request.method = "prompts/get" -> "Unknown prompt: " \o request.name

\* C4 as stated: the error envelope's message field contains the
\* "Unknown ...: <key>" text.
C4_Original ==
  /\ (WsHandled /\ UnknownKey(last.message.envelope) /\ last.attempts = 0)
       => /\ last.frames # <<>>
          /\ Contains(last.frames[1].error.message, UnknownText(last.message.envelope))
  /\ (McpReturned /\ JSONParses(last.message) /\ UnknownKey(last.message.envelope))
       => Contains(last.response.json.error.message, UnknownText(last.message.envelope))

\* C4 amended: a request naming an unregistered tool, resource or prompt is
\* answered with one error envelope (a frame on an open socket, the 500 body
\* on HTTP) whose error.code is -32603, whose error.message is "Internal
\* error" and whose error.data is the "Unknown ...: <key>" text.
C4_UnknownInData ==
  /\ (WsHandled /\ UnknownKey(last.message.envelope) /\ last.attempts = 0)
       => /\ Len(last.frames) = 1
          /\ last.frames[1].type = "error"
          /\ last.frames[1].error.code = -32603
          /\ last.frames[1].error.message = "Internal error"
          /\ last.frames[1].error.data = UnknownText(last.message.envelope)
  /\ (McpReturned /\ JSONParses(last.message) /\ UnknownKey(last.message.envelope))
       => /\ last.response.status = 500
          /\ last.response.json.type = "error"
          /\ last.response.json.error.code = -32603
          /\ last.response.json.error.message = "Internal error"
          /\ last.response.json.error.data = UnknownText(last.message.envelope)

\* tools/call "nope" with an id was answered on a socket.
C4_Witness ==
  /\ WsHandled /\ UnknownKey(last.message.envelope) /\ last.attempts = 0
  /\ last.message.envelope.name = "nope"
  /\ last.message.envelope.method = "tools/call"
  /\ last.frames # <<>>

\* C5 as stated: every envelope sent for a request whose id is a string or a
\* number carries that id, on both transports.
C5_IdEchoed ==
  /\ (WsHandled /\ last.message.envelope.id \in RequestIds)
       => \A i \in DOMAIN last.frames : last.frames[i].id = last.message.envelope.id
  /\ (McpReturned /\ JSONParses(last.message) /\ last.message.envelope.id \in RequestIds
        /\ last.response.json # NoFrame)
       => last.response.json.id = last.message.envelope.id
  /\ (http.pc # "idle" /\ http.request.body.envelope.id \in RequestIds)
       => \A i \in DOMAIN http.chunks : http.chunks[i].id = http.request.body.envelope.id

\* Body parsing or request handling of a POST /mcp body faults.
Faulted(body) ==
  \/ ~JSONParses(body)
  \/ ~IsNotification(body.envelope) /\ Handle(body.envelope, 0).thrown

C7_Options ==
  /\ [](last.op = "fetch" /\ last.request.method = "OPTIONS"
          => /\ last.response.status = 200
             /\ last.response.allowOrigin = "*"
             /\ last.response.allowMethods = "GET, POST, OPTIONS"
             /\ last.response.allowHeaders = "Content-Type, Authorization"
             /\ last.response.webSocket = 0
             /\ last.ws = 0
             /\ last.frames = <<>>
             /\ ~last.dispatched)
  /\ [][(last'.op = "fetch" /\ last'.request.method = "OPTIONS" /\ last' # last)
          => UNCHANGED <<sessions, wsState, closeCode, sent, pending>>]_vars

\* An OPTIONS request carrying Upgrade: websocket reached the socket variant
\* while a connection was open.
C7_Witness ==
  /\ variant = "socket"
  /\ last.op = "fetch" /\ last.request.method = "OPTIONS"
  /\ last.request.upgrade = "websocket"
  /\ last.request.path = "/ws"
  /\ sessions # {}

\* C8 as stated: the socket variant upgrades only at /ws, and answers every
\* (non-preflight) request to a path other than / and /ws with the 404,
\* creating no connection.
C8_UpgradeOnlyAtWs ==
  (variant = "socket" /\ last.op = "fetch" /\ last.request.method # "OPTIONS")
    => /\ last.response.status = 101 => last.request.path = "/ws"
       /\ last.request.path \notin {"/", "/ws"}
            => (last.response = NotFoundResponse /\ last.ws = 0)


\* The request of the last handler call and its result.
LastRequest == last.message.envelope
LastResult == last.frames[1].result

\* C9: random_number with integers min <= max returns, for every draw, an
\* integer in [min, max]; with min = max it returns min.
C9_RandomInRange ==
  (last.op = "CallTool" /\ LastRequest.name = "random_number" /\ last.fault = "")
    => LET min == LastRequest.args["min"].n
           max == LastRequest.args["max"].n
       IN /\ last.frames # <<>>
          /\ LastResult.min = min /\ LastResult.max = max
          /\ (min <= max => LastResult.value \in min..max)
          /\ (min = max => LastResult.value = min)

\* random_number({min: 1, max: 10}) answered with the top of the range.
C9_Witness ==
  /\ last.op = "CallTool" /\ LastRequest.name = "random_number" /\ last.fault = ""
  /\ LastRequest.args["min"].n = 1 /\ LastRequest.args["max"].n = 10
  /\ LastResult.value > 5

\* C10: a tools/call naming a listed tool, with exactly the descriptor's
\* required fields in their declared types, is handled without a fault; and
\* tools/call handles no name the list does not carry (every other name
\* raises the unknown-tool fault).
C10_CatalogDispatch ==
  last.op = "CallTool" =>
    /\ \A i \in DOMAIN ListTools :
         (LastRequest.name = ListTools[i].name /\ LastRequest.hasArgs
            /\ LastRequest.args \in MinimalArgs(ListTools[i]))
           => (last.fault = "" /\ last.frames # <<>> /\ LastResult.name = LastRequest.name)
    /\ (LastRequest.hasParams /\ last.fault # "Unknown tool: " \o LastRequest.name)
         => LastRequest.name \in ToolNames

\* echo called with exactly its required field.
C10_Witness ==
  /\ last.op = "CallTool" /\ LastRequest.name = "echo"
  /\ LastRequest.args = [text |-> Str("hi")]
  /\ last.fault = "" /\ LastResult.s1 = "hi"

\* C11 as stated: the HTTP variant exposes roll_dice: the tools/list result
\* it writes carries the name roll_dice, and a POST /mcp with tools/call
\* roll_dice {count: n} produces a result envelope, not the error body.
C11_RollDice ==
  /\ (variant = "http" /\ http.pc # "idle" /\ http.chunks # <<>>
        /\ http.request.body.envelope.method = "tools/list")
       => "roll_dice" \in http.chunks[1].result.names
  /\ (McpReturned /\ JSONParses(last.message)
        /\ last.message.envelope \in RollDiceRequests)
       => (last.response.status = 200 /\ last.response.json = NoFrame)

\* An inbound frame that is not text, or a text that is not JSON, was handled.
TransportFault == last.op = "webSocketMessage" /\ ~JSONParses(last.message)

\* C12: for an inbound frame that is not text or does not parse as JSON the
\* server does exactly one of two things: it sends one error envelope on
\* that connection and does not close it, or it sends nothing and closes
\* that connection with code 1011 and reason "Internal error"; never both,
\* never neither.
C12_TransportFault ==
  TransportFault =>
    LET replied == /\ Len(last.frames) = 1
                   /\ last.frames[1].type = "error"
                   /\ sent[last.ws][Len(sent[last.ws])] = "response"
        closed == /\ last.closed
                  /\ wsState[last.ws] = "Closed"
                  /\ closeCode[last.ws] = InternalClose
    IN /\ (replied /\ ~last.closed) \/ (closed /\ last.frames = <<>>)
       /\ ~(replied /\ last.closed)
       /\ last.attempts = 0
       /\ last.fault # ""

\* A binary frame arrived on an open connection, which was closed with 1011.
C12_Witness ==
  /\ TransportFault
  /\ last.message.type = "binary"
  /\ last.closed
  /\ closeCode[last.ws].code = 1011
  /\ sent[last.ws] = <<"notifications/initialized">>

\* The connection was accepted and a close or error event has removed it.
Removed(c) == wsState[c] # "Pending" /\ c \notin sessions

\* C13: once a close or error event has removed a connection, every later
\* step leaves it out of the open-connection set and in state Closed, and a
\* further close or error event for it completes without fault and leaves
\* the set as it is.
C13_Terminal ==
  [][\A c \in Conns :
       Removed(c) =>
         /\ c \notin sessions'
         /\ wsState'[c] = "Closed"
         /\ (last'.op \in {"webSocketClose", "webSocketError"} /\ last'.ws = c)
              => (sessions' = sessions /\ last'.fault = "" /\ ~last'.deleted)]_vars

\* An error event arrived for a connection a close event had already
\* removed, while another connection was open.
C13_Witness ==
  /\ last.op = "webSocketError"
  /\ ~last.deleted
  /\ Removed(last.ws)
  /\ sessions # {}

\* The last event is a finished webSocketMessage on a request with an id
\* whose handling faulted.
HandlerFault ==
  /\ WsHandled
  /\ ~IsNotification(last.message.envelope)
  /\ handleRequest(last.message.envelope, 0).thrown

C15_SetIsOpen == sessions = {c \in Conns : wsState[c] = "Open"}

\* C16: a step of webSocketMessage (up to its await, or from it to its end)
\* sends at most one frame, on the connection the message arrived on: the
\* logs of the other connections and the open-connection set stay as they
\* are, and the part before the await sends nothing, so that one message
\* causes at most one frame in all.
C16_OneFrameSameConnection ==
  [][(last'.op \in {"webSocketMessage", "webSocketMessageAwait"})
       => /\ sessions' = sessions
          /\ \A c \in Conns \ {last'.ws} : sent'[c] = sent[c]
          /\ Len(last'.frames) <= 1
          /\ sent'[last'.ws] = sent[last'.ws] \o FrameKinds(last'.frames)
          /\ (last'.op = "webSocketMessageAwait" => last'.frames = <<>>)]_vars

\* A request was answered on one connection while another one was open and
\* had received nothing but its initialization notification.
C16_Witness ==
  /\ WsHandled
  /\ Len(last.frames) = 1
  /\ \E c \in sessions \ {last.ws} :
        wsState[c] = "Open" /\ sent[c] = <<"notifications/initialized">>
  /\ sent[last.ws] = <<"notifications/initialized", "response">>

\* C17 as stated: whatever close and error events arrive while
\* webSocketMessage is suspended at its await, the handler makes no ws.send
\* call on a connection that is closed or no longer in the open-connection
\* set.
C17_NoSendOnClosed ==
  last.op = "webSocketMessage" => last.attempts = 0

\* C18 as stated, in the form a finite run refutes: a POST /mcp never
\* blocks waiting for a reader, that is, whenever fetch() is suspended at
\* the awaited write of the data: frame or the awaited close of the stream,
\* that await can complete and let fetch() go on to return its response.
\* (Nothing but httpResume moves a suspended fetch(), so a state in which it
\* is disabled is one in which the POST never returns.)
C18_PostReturns ==
  (variant = "http" /\ http.pc \in {"write", "close"}) => ENABLED httpResume

====
